---- MODULE Spec2Model ----
(***************************************************************************)
(* A model of the kvs server: the wire Value type and its encoder, the     *)
(* buffered Connection, the sharded store and the commands executed        *)
(* against it (PING, GET, SET, INCR, INCRBY, DECR, DECRBY).                *)
(*                                                                         *)
(* Integers are modelled with their two's-complement width, scaled from    *)
(* 8 bytes down to IntBytes bytes so that the boundaries (0, the largest   *)
(* unsigned value, the smallest signed value) are reachable.               *)
(***************************************************************************)
EXTENDS Integers, Sequences, FiniteSets, TLC

(***************************************************************************)
(* Bounds of the model.                                                    *)
(***************************************************************************)
\* width of u64 / i64 in the model, in bytes
IntBytes == 2
\* number of connection tasks
NTasks == 2
\* number of commands executed in one behaviour, over all connections
MaxCmds == 2

Tasks == 1..NTasks

(***************************************************************************)
(* Fixed-width integers.                                                   *)
(***************************************************************************)
RECURSIVE Pow2(_)
Pow2(n) == IF n = 0 THEN 1 ELSE 2 * Pow2(n - 1)

IntBits == 8 * IntBytes
UMax == Pow2(IntBits) - 1
IMin == 0 - Pow2(IntBits - 1)
IMax == Pow2(IntBits - 1) - 1

\* `x as u64`
AsU64(x) == x % Pow2(IntBits)
\* `x as i64`
AsI64(x) == LET m == x % Pow2(IntBits) IN IF m > IMax THEN m - Pow2(IntBits) ELSE m
\* `x as u8`
AsU8(x) == x % 256

InU64(x) == 0 <= x /\ x <= UMax
InI64(x) == IMin <= x /\ x <= IMax

RECURSIVE BitLen(_)
BitLen(n) == IF n = 0 THEN 0 ELSE 1 + BitLen(n \div 2)

\* u64::leading_zeros / i64::leading_zeros, on the bit pattern
leading_zeros(x) == IntBits - BitLen(AsU64(x))

RECURSIVE BitOr(_, _)
BitOr(a, b) ==
    IF a = 0 THEN b
    ELSE IF b = 0 THEN a
    ELSE (IF a % 2 = 1 \/ b % 2 = 1 THEN 1 ELSE 0) + 2 * BitOr(a \div 2, b \div 2)

(***************************************************************************)
(* protocol::Value.  Bytes carries a sequence of bytes, a String or Error   *)
(* its text as the sequence of its UTF-8 bytes, an Array a sequence of     *)
(* Values, a Map a set of <<key, Value>> with at most one pair per key.    *)
(***************************************************************************)
Positive(n) == [tag |-> "Positive", val |-> n]
Negative(n) == [tag |-> "Negative", val |-> n]
Bytes(b) == [tag |-> "Bytes", val |-> b]
String(s) == [tag |-> "String", val |-> s]
Array(a) == [tag |-> "Array", val |-> a]
Map(m) == [tag |-> "Map", val |-> m]
Error(e) == [tag |-> "Error", val |-> e]

\* Option::None, as returned by the shard's get / get_mut / insert
None == [tag |-> "None", val |-> 0]

\* a string literal of the source, as its UTF-8 bytes
Str(s) ==
    CASE s = "Can not find the key" ->
            <<67, 97, 110, 32, 110, 111, 116, 32, 102, 105, 110, 100,
              32, 116, 104, 101, 32, 107, 101, 121>>
      [] s = "Not a number" -> <<78, 111, 116, 32, 97, 32, 110, 117, 109, 98, 101, 114>>
      [] s = "PONG" -> <<80, 79, 78, 71>>
      [] s = "PING" -> <<80, 73, 78, 71>>
      [] s = "GET" -> <<71, 69, 84>>
      [] s = "SET" -> <<83, 69, 84>>
      [] s = "INCR" -> <<73, 78, 67, 82>>
      [] s = "INCRBY" -> <<73, 78, 67, 82, 66, 89>>
      [] s = "DECR" -> <<68, 69, 67, 82>>
      [] s = "DECRBY" -> <<68, 69, 67, 82, 66, 89>>
      [] s = "get" -> <<103, 101, 116>>
      [] s = "DEL" -> <<68, 69, 76>>
      [] s = "hi" -> <<104, 105>>
      [] s = "" -> << >>

EMPTY == Str("Can not find the key")
NOT_A_NUMBER == Str("Not a number")
PONG == Str("PONG")

POSITIVE_MAJOR == 0
NEGATIVE_MAJOR == 1
BYTES_MAJOR == 2
STRING_MAJOR == 3
ARRAY_MAJOR == 4
ERROR_MAJOR == 5
MAP_MAJOR == 6
INDEFINITE_LENGTH == 31

\* str::as_bytes: the bytes a text is held as
as_bytes(s) == s

(***************************************************************************)
(* protocol::encode                                                        *)
(***************************************************************************)
\* BufMut::put_int(n, nbytes): the low nbytes bytes of n, big-endian
RECURSIVE put_int(_, _)
put_int(n, nbytes) ==
    IF nbytes = 0 THEN << >>
    ELSE Append(put_int(AsU64(n) \div 256, nbytes - 1), AsU64(n) % 256)

\* the byte length both integer encoders compute from the leading zeros
int_len(x) ==
    LET len == (IntBits - leading_zeros(x)) \div 8
    IN  IF len = 0 \/ leading_zeros(x) % 8 # 0 THEN len + 1 ELSE len

encode_positive(n) ==
    IF n < 24
    THEN <<BitOr(POSITIVE_MAJOR * 32, AsU8(n))>>
    ELSE <<BitOr(POSITIVE_MAJOR * 32, AsU8(int_len(n) + 23))>>
         \o put_int(AsI64(n), int_len(n))

\* i64::abs, wrapping where the build does not check overflow
abs(n) == IF n < 0 THEN AsI64(0 - n) ELSE n

\* an encode_negative that subtracts the offset from the inline values as well
EncodeNegativeOffset(n) ==
    IF abs(n) < 24
    THEN <<BitOr(NEGATIVE_MAJOR * 32, AsU8(AsI64(0 - AsI64(n + 1))))>>
    ELSE <<BitOr(NEGATIVE_MAJOR * 32, AsU8(int_len(AsI64(0 - n)) + 23))>>
         \o put_int(AsI64(0 - AsI64(n + 1)), int_len(AsI64(0 - n)))

encode_negative(n) ==
    IF abs(n) < 24
    THEN <<BitOr(NEGATIVE_MAJOR * 32, AsU8(AsI64(0 - n)))>>
    ELSE <<BitOr(NEGATIVE_MAJOR * 32, AsU8(int_len(AsI64(0 - n)) + 23))>>
         \o put_int(AsI64(0 - AsI64(n + 1)), int_len(AsI64(0 - n)))

\* the arithmetic of encode_negative overflows (a panic where overflow is checked)
encode_negative_overflows(n) == n = IMin \/ (abs(n) >= 24 /\ n = IMax)

\* encode_bytes, encode_string and encode_error share one body
encode_payload(major, bytes) ==
    IF Len(bytes) = 1 /\ bytes[1] < 24
    THEN <<BitOr(major * 32, bytes[1])>>
    ELSE <<BitOr(major * 32, AsU8(Len(bytes)))>> \o bytes

encode_bytes(bytes) == encode_payload(BYTES_MAJOR, bytes)
encode_string(string) == encode_payload(STRING_MAJOR, as_bytes(string))
encode_error(error) == encode_payload(ERROR_MAJOR, as_bytes(error))

\* the byte strings in the order of their bytes, a prefix before its extensions
Less(a, b) ==
    \E i \in 1..(Len(b)) :
        /\ \A j \in 1..(i - 1) : j <= Len(a) /\ a[j] = b[j]
        /\ (i > Len(a) \/ (i - 1 < Len(a) /\ a[i] < b[i]))

\* the entries of a HashMap in the order its iterator yields them: one fixed
\* order of the keys
into_iter(m) ==
    [r \in 1..Cardinality(m) |->
        CHOOSE e \in m : Cardinality({f \in m : Less(f[1], e[1])}) = r - 1]

\* Iterator::flatten: the parts one after the other
RECURSIVE concat(_)
concat(parts) ==
    IF Len(parts) = 0 THEN << >>
    ELSE IF Len(parts) = 1 THEN parts[1]
    ELSE LET half == Len(parts) \div 2
         IN  concat(SubSeq(parts, 1, half)) \o concat(SubSeq(parts, half + 1, Len(parts)))

RECURSIVE encode(_)
encode_all(items) == concat([i \in 1..Len(items) |-> encode(items[i])])

encode_array(array) ==
    <<IF Len(array) < 31 THEN BitOr(ARRAY_MAJOR * 32, AsU8(Len(array)))
      ELSE BitOr(ARRAY_MAJOR * 32, INDEFINITE_LENGTH)>>
    \o encode_all(array)
    \o (IF Len(array) >= 31 THEN <<255>> ELSE << >>)

encode_entries(entries) ==
    concat([i \in 1..Len(entries) |-> entries[i][1] \o encode(entries[i][2])])

enode_map(map) ==
    <<IF Cardinality(map) < 31 THEN BitOr(ARRAY_MAJOR * 32, AsU8(Cardinality(map)))
      ELSE INDEFINITE_LENGTH>>
    \o encode_entries(into_iter(map))
    \o (IF Cardinality(map) >= 31 THEN <<255>> ELSE << >>)

encode(v) ==
    CASE v.tag = "Positive" -> encode_positive(v.val)
      [] v.tag = "Negative" -> encode_negative(v.val)
      [] v.tag = "Bytes" -> encode_bytes(v.val)
      [] v.tag = "String" -> encode_string(v.val)
      [] v.tag = "Array" -> encode_array(v.val)
      [] v.tag = "Map" -> enode_map(v.val)
      [] v.tag = "Error" -> encode_error(v.val)

\* Value::encode panics, in a build that checks integer overflow
RECURSIVE encode_overflows(_)
encode_overflows(v) ==
    CASE v.tag = "Negative" -> encode_negative_overflows(v.val)
      [] v.tag = "Array" -> \E i \in 1..Len(v.val) : encode_overflows(v.val[i])
      [] v.tag = "Map" -> \E e \in v.val : encode_overflows(e[2])
      [] OTHER -> FALSE

(***************************************************************************)
(* The store (sharded::Map), the commands and the connections.             *)
(***************************************************************************)
KeyA == <<97>>
KeyB == <<98>>
KeyC == <<99>>
Keys == {KeyA, KeyB, KeyC}

\* the shard sharded::Map hashes a key to: KeyA and KeyC share one, KeyB has its own
ShardOf(k) == IF k = KeyB THEN "shard1" ELSE "shard0"

\* the commands the clients send: every command on KeyA, a few on the other keys
GetKeys == {KeyA, KeyB}
SetInputs == {<<KeyA, Positive(1)>>, <<KeyB, String(Str("hi"))>>}
IncrKeys == {KeyA}
DecrKeys == {KeyA, KeyC}
IncrDeltas == {1}
DecrDeltas == {1, IMin}

\* what earlier connections may have left under KeyA when the behaviour starts
StoredIntegers ==
    {Positive(0), Positive(UMax), Negative(IMin), Negative(0 - 1)}
StoredOthers ==
    {Bytes(<<1>>), String(Str("hi")), Array(<<Positive(1)>>), Map({<<KeyA, Positive(1)>>}),
     Error(EMPTY)}

VARIABLES
    threads,          \* the number of threads of the executor that polls the tasks
    overflow_checks,  \* the build checks integer overflow (debug) or wraps (release)
    store,            \* sharded::Map: key -> Value, None when the key is absent
    guard,            \* per task: the shard handle it holds
    pc,               \* per task: where its connection is suspended
    cmd,              \* per task: the command it executes
    found,            \* per task: what the shard returned for the command's key
    resp,             \* per task: the Value handed to write_frame
    write_half,       \* per task: the bytes buffered in the BufWriter
    wire,             \* per task: the bytes flushed to the peer since its last frame
    issued,           \* commands started so far
    lastSet,          \* history: per key, the value of the last SET not yet overwritten
    stage,            \* codec: what has been computed so far
    given,            \* codec: the Value handed to Value::encode
    buf,              \* codec: the bytes handed to parse
    parsed,           \* codec: what parse returned
    command,          \* codec: the command handed to CommandEntry::encode
    frame,            \* codec: the Value handed to CommandEntry::parse
    decoded,          \* codec: what CommandEntry::parse returned
    sent,             \* connection: what its last underlying read did
    reads,            \* connection: the underlying reads performed so far
    written           \* connection: the Values handed to write_frame so far

\* the variables of the codec, which the executing connections leave alone
codecVars == <<stage, given, buf, parsed, command, frame, decoded>>

\* the variables of a Connection used on its own
connVars == <<sent, reads, written>>

vars == <<threads, overflow_checks, store, guard, pc, cmd, found, resp, write_half, wire,
          issued, lastSet, stage, given, buf, parsed, command, frame, decoded,
          sent, reads, written>>

NoGuard == [shard |-> "none", mode |-> "none"]
\* what an underlying read does: it fails, or it delivers bytes, none of them
\* when the peer has closed
NoRead == [kind |-> "none", bytes |-> << >>]
IoError == [kind |-> "error", bytes |-> << >>]
Delivers(b) == [kind |-> "bytes", bytes |-> b]
NoCmd == [op |-> "NONE", key |-> << >>, value |-> None, by |-> 0]

Ping == [op |-> "PING", key |-> << >>, value |-> None, by |-> 0]
Get(k) == [op |-> "GET", key |-> k, value |-> None, by |-> 0]
Set(k, v) == [op |-> "SET", key |-> k, value |-> v, by |-> 0]
Incr(k) == [op |-> "INCR", key |-> k, value |-> None, by |-> 0]
IncrBy(k, by) == [op |-> "INCRBY", key |-> k, value |-> None, by |-> by]
Decr(k) == [op |-> "DECR", key |-> k, value |-> None, by |-> 0]
DecrBy(k, by) == [op |-> "DECRBY", key |-> k, value |-> None, by |-> by]

\* a db.write that hands out the handle whoever holds the shard
WriteUnlocked(t, k) == TRUE

\* db.write(key): no other task holds a handle of the key's shard
CanWrite(t, k) == \A u \in Tasks \ {t} : guard[u].shard # ShardOf(k)
\* db.read(key): no other task holds the write handle of the key's shard
CanRead(t, k) ==
    \A u \in Tasks \ {t} : ~(guard[u].shard = ShardOf(k) /\ guard[u].mode = "write")

(***************************************************************************)
(* protocol::parse.  A parser returns Ok with the remaining input and its  *)
(* output, a ParseError, or does not return at all: the `todo!()` arms     *)
(* and an overflow the build checks are panics.                            *)
(***************************************************************************)
Ok(rest, value) == [kind |-> "Ok", rest |-> rest, value |-> value]
ParseError == [kind |-> "ParseError", rest |-> << >>, value |-> None]
\* a panic: the call unwinds instead of returning
Panicked == [kind |-> "panic", rest |-> << >>, value |-> None]

\* nom's take(count)
take(input, n) ==
    IF Len(input) < n THEN ParseError
    ELSE Ok(SubSeq(input, n + 1, Len(input)), SubSeq(input, 1, n))

\* the bytes read with the least significant byte first
RECURSIVE FromLeBytes(_)
FromLeBytes(b) ==
    IF b = << >> THEN 0
    ELSE (FromLeBytes(Tail(b)) % Pow2(IntBits - 8)) * 256 + Head(b)

\* u64::from_be_bytes of the bytes right-aligned in a zeroed array
RECURSIVE from_be_bytes(_)
from_be_bytes(b) ==
    IF b = << >> THEN 0
    ELSE (from_be_bytes(SubSeq(b, 1, Len(b) - 1)) % Pow2(IntBits - 8)) * 256 + b[Len(b)]

\* a continuation byte of a UTF-8 sequence
IsCont(b, i) == i <= Len(b) /\ 128 <= b[i] /\ b[i] <= 191

\* the length of the well-formed UTF-8 sequence that starts at position i, 0 if
\* none does
char_len(b, i) ==
    LET c == b[i]
        second(lo, hi) == i + 1 <= Len(b) /\ lo <= b[i + 1] /\ b[i + 1] <= hi
        len(n, fits) == IF fits THEN n ELSE 0
    IN  CASE c < 128 -> 1
          [] 194 <= c /\ c <= 223 -> len(2, IsCont(b, i + 1))
          [] c = 224 -> len(3, second(160, 191) /\ IsCont(b, i + 2))
          [] c = 237 -> len(3, second(128, 159) /\ IsCont(b, i + 2))
          [] 225 <= c /\ c <= 239 /\ c # 237 ->
                len(3, IsCont(b, i + 1) /\ IsCont(b, i + 2))
          [] c = 240 ->
                len(4, second(144, 191) /\ IsCont(b, i + 2) /\ IsCont(b, i + 3))
          [] 241 <= c /\ c <= 243 ->
                len(4, IsCont(b, i + 1) /\ IsCont(b, i + 2) /\ IsCont(b, i + 3))
          [] c = 244 ->
                len(4, second(128, 143) /\ IsCont(b, i + 2) /\ IsCont(b, i + 3))
          [] OTHER -> 0

\* std::str::from_utf8(bytes).is_ok(): every byte starts a well-formed sequence
\* or continues the one that starts up to three bytes before it
from_utf8(b) ==
    \A i \in 1..Len(b) :
        IF IsCont(b, i)
        THEN \E j \in 1..3 : /\ i - j >= 1
                              /\ ~IsCont(b, i - j)
                              /\ char_len(b, i - j) > j
        ELSE char_len(b, i) > 0

\* parse_first_byte: (major, additional) of the header byte
parse_first_byte(input) ==
    IF input = << >> THEN ParseError
    ELSE Ok(Tail(input), <<input[1] \div 32, input[1] % 32>>)

parse_number(input, additional) ==
    IF additional < 24 THEN Ok(input, additional)
    ELSE LET taken == take(input, additional - 23)
         IN  IF taken.kind # "Ok" THEN taken
             ELSE Ok(taken.rest, from_be_bytes(taken.value))

parse_bytes(input, additional) ==
    IF additional < 23 THEN Ok(input, Bytes(<<additional>>))
    ELSE LET taken == take(input, additional - 23)
         IN  IF taken.kind # "Ok" THEN taken ELSE Ok(taken.rest, Bytes(taken.value))

parse_string(input, additional) ==
    IF additional < 23 THEN Ok(input, Bytes(<<additional>>))
    ELSE LET taken == take(input, additional - 23)
         IN  IF taken.kind # "Ok" THEN taken
             ELSE IF ~from_utf8(taken.value) THEN ParseError
             ELSE Ok(taken.rest, String(taken.value))

parse_error(input, additional) ==
    IF additional < 23 THEN Ok(input, Bytes(<<additional>>))
    ELSE LET taken == take(input, additional - 23)
         IN  IF taken.kind # "Ok" THEN taken
             ELSE IF ~from_utf8(taken.value) THEN ParseError
             ELSE Ok(taken.rest, Error(taken.value))

\* HashMap::from_iter: a later pair replaces an earlier one with the same key
from_iter(pairs) ==
    {pairs[i] : i \in {i \in 1..Len(pairs) :
                          \A j \in (i + 1)..Len(pairs) : pairs[j][1] # pairs[i][1]}}

RECURSIVE parse(_)
RECURSIVE repeat(_, _, _, _, _)

\* tuple((parse, parse)): a key and a value
parse_pair(input) ==
    LET k == parse(input)
    IN  IF k.kind # "Ok" THEN k
        ELSE LET v == parse(k.rest)
             IN  IF v.kind # "Ok" THEN v ELSE Ok(v.rest, <<k.value, v.value>>)

\* one item of an array (pairs = FALSE) or of a map (pairs = TRUE)
parse_item(input, pairs) == IF pairs THEN parse_pair(input) ELSE parse(input)

\* the loop of count and of many_till stopped with the items it has collected
More(rest, items) == [kind |-> "More", rest |-> rest, value |-> items]

\* one turn of the loop of nom's count(item, n) (till = FALSE) or of nom's
\* many_till(item, tag(&[0xFF])) (till = TRUE), which tries the terminator
\* before each item and gives up on an item that consumes nothing
turn(s, pairs, n, till) ==
    IF s.kind # "More" THEN s
    ELSE IF till /\ s.rest # << >> /\ s.rest[1] = 255 THEN Ok(Tail(s.rest), s.value)
    ELSE IF ~till /\ Len(s.value) = n THEN Ok(s.rest, s.value)
    ELSE LET item == parse_item(s.rest, pairs)
         IN  IF item.kind # "Ok" THEN item
             ELSE IF till /\ Len(item.rest) = Len(s.rest) THEN ParseError
             ELSE More(item.rest, Append(s.value, item.value))

\* the loop runs until it returns, which it does within 2^MaxTurns turns on
\* every input the model parses
MaxTurns == 9

\* 2^k turns of the loop
repeat(s, k, pairs, n, till) ==
    IF k = 0 THEN turn(s, pairs, n, till)
    ELSE LET half == repeat(s, k - 1, pairs, n, till)
         IN  IF half.kind # "More" THEN half
             ELSE repeat(half, k - 1, pairs, n, till)

count(input, n, pairs) == repeat(More(input, << >>), MaxTurns, pairs, n, FALSE)

many_till(input, pairs) == repeat(More(input, << >>), MaxTurns, pairs, 0, TRUE)

parse_array(input, size) ==
    LET items == IF size = INDEFINITE_LENGTH THEN many_till(input, FALSE)
                 ELSE count(input, size, FALSE)
    IN  IF items.kind # "Ok" THEN items ELSE Ok(items.rest, Array(items.value))

\* the keys of an indefinite map are the encodings of the parsed key Values, the
\* keys of a definite map are all the empty BytesMut
parse_map(input, size, checks) ==
    IF size = INDEFINITE_LENGTH
    THEN LET items == many_till(input, TRUE)
         IN  IF items.kind # "Ok" THEN items
             ELSE IF checks /\ \E i \in 1..Len(items.value) :
                                  encode_overflows(items.value[i][1])
             THEN Panicked
             ELSE Ok(items.rest,
                     Map(from_iter([i \in 1..Len(items.value) |->
                            <<encode(items.value[i][1]), items.value[i][2]>>])))
    ELSE LET items == count(input, size, TRUE)
         IN  IF items.kind # "Ok" THEN items
             ELSE Ok(items.rest,
                     Map(from_iter([i \in 1..Len(items.value) |->
                            <<(<< >>), items.value[i][2]>>])))

parse(input) ==
    LET first == parse_first_byte(input)
    IN  IF first.kind # "Ok" THEN first
        ELSE LET rest == first.rest
                 major == first.value[1]
                 size == first.value[2]
                 number == parse_number(rest, size)
             IN  CASE major = POSITIVE_MAJOR ->
                        IF number.kind # "Ok" THEN number
                        ELSE Ok(number.rest, Positive(number.value))
                   [] major = NEGATIVE_MAJOR ->
                        IF number.kind # "Ok" THEN number
                        ELSE Ok(number.rest, Negative(0 - 1 - AsI64(number.value)))
                   [] major = BYTES_MAJOR -> parse_bytes(rest, size)
                   [] major = STRING_MAJOR -> parse_string(rest, size)
                   [] major = ARRAY_MAJOR -> parse_array(rest, size)
                   [] major = ERROR_MAJOR -> parse_error(rest, size)
                   [] major = MAP_MAJOR -> parse_map(rest, size, overflow_checks)
                   [] OTHER -> Panicked

(***************************************************************************)
(* Command::decode / Command::encode and CommandEntry::parse / encode.     *)
(* A Value is handed over together with the Cow variant of its texts:      *)
(* parse borrows them from the input, Value::to_owned owns them.  Values   *)
(* compare equal whatever the variant; a pattern can tell them apart.      *)
(***************************************************************************)
Frame(v, cow) == [value |-> v, cow |-> cow]

\* Value::to_owned
to_owned(f) == Frame(f.value, "Owned")

\* nothing handed over or returned yet
NoFrame == Frame(None, "Owned")
NoResult == [kind |-> "none", rest |-> << >>, value |-> None]
NoDecoded == [kind |-> "none", command |-> NoCmd]

Decoded(c) == [kind |-> "Ok", command |-> c]
\* Err(ProtocolError::Command)
ProtocolErrorCommand == [kind |-> "Command", command |-> NoCmd]
\* a panic: `todo!()`, or an index past the end of the slice
Aborted == [kind |-> "panic", command |-> NoCmd]

Ping_decode(req) == IF req = << >> THEN Decoded(Ping) ELSE ProtocolErrorCommand

Get_decode(req) ==
    IF req = << >> THEN Aborted
    ELSE IF req[1].tag = "Bytes" THEN Decoded(Get(as_bytes(req[1].val)))
    ELSE ProtocolErrorCommand

Set_decode(req) ==
    IF Len(req) = 2 /\ req[1].tag = "Bytes"
    THEN Decoded(Set(as_bytes(req[1].val), req[2]))
    ELSE ProtocolErrorCommand

Decr_decode(req) ==
    IF req = << >> THEN Aborted
    ELSE IF req[1].tag = "Bytes" THEN Decoded(Decr(as_bytes(req[1].val)))
    ELSE ProtocolErrorCommand

DecrBy_decode(req) ==
    IF Len(req) = 2 /\ req[1].tag = "Bytes" /\ req[2].tag = "Negative"
    THEN Decoded(DecrBy(as_bytes(req[1].val), req[2].val))
    ELSE ProtocolErrorCommand

\* command::incr: INCR takes [Bytes(key)], INCRBY takes [Bytes(key), Negative(by)]
Incr_decode(req) ==
    IF Len(req) = 1 /\ req[1].tag = "Bytes" THEN Decoded(Incr(as_bytes(req[1].val)))
    ELSE ProtocolErrorCommand

IncrBy_decode(req) ==
    IF Len(req) = 2 /\ req[1].tag = "Bytes" /\ req[2].tag = "Negative"
    THEN Decoded(IncrBy(as_bytes(req[1].val), req[2].val))
    ELSE ProtocolErrorCommand

\* CommandEntry::parse
CommandEntry_parse(input) ==
    IF input.value.tag # "Array" THEN ProtocolErrorCommand
    ELSE IF input.value.val = << >> THEN ProtocolErrorCommand
    ELSE IF ~(input.value.val[1].tag = "String" /\ input.cow = "Borrowed")
    THEN ProtocolErrorCommand
    ELSE LET first == input.value.val[1].val
             args == Tail(input.value.val)
         IN  CASE first = Str("PING") -> Ping_decode(args)
               [] first = Str("GET") -> Get_decode(args)
               [] first = Str("SET") -> Set_decode(args)
               [] first = Str("INCR") -> Incr_decode(args)
               [] first = Str("INCRBY") -> IncrBy_decode(args)
               [] first = Str("DECR") -> Decr_decode(args)
               [] first = Str("DECRBY") -> DecrBy_decode(args)
               [] OTHER -> Aborted

Ping_encode(c) == Frame(Array(<<String(Str("PING"))>>), "Borrowed")
Get_encode(c) == Frame(Array(<<String(Str("GET")), Bytes(as_bytes(c.key))>>), "Borrowed")
Set_encode(c) ==
    Frame(Array(<<String(Str("SET")), Bytes(as_bytes(c.key)), c.value>>), "Borrowed")
Decr_encode(c) ==
    Frame(Array(<<String(Str("DECR")), Bytes(as_bytes(c.key))>>), "Borrowed")
DecrBy_encode(c) ==
    Frame(Array(<<String(Str("DECRBY")), Bytes(as_bytes(c.key)), Negative(c.by)>>),
          "Borrowed")
\* command::incr, encoding what its decode takes
Incr_encode(c) ==
    Frame(Array(<<String(Str("INCR")), Bytes(as_bytes(c.key))>>), "Borrowed")
IncrBy_encode(c) ==
    Frame(Array(<<String(Str("INCRBY")), Bytes(as_bytes(c.key)), Negative(c.by)>>),
          "Borrowed")

\* CommandEntry::encode
CommandEntry_encode(c) ==
    CASE c.op = "PING" -> to_owned(Ping_encode(c))
      [] c.op = "GET" -> to_owned(Get_encode(c))
      [] c.op = "SET" -> to_owned(Set_encode(c))
      [] c.op = "INCR" -> to_owned(Incr_encode(c))
      [] c.op = "INCRBY" -> to_owned(IncrBy_encode(c))
      [] c.op = "DECR" -> to_owned(Decr_encode(c))
      [] c.op = "DECRBY" -> to_owned(DecrBy_encode(c))

(***************************************************************************)
(* The commands' execute.                                                  *)
(***************************************************************************)
\* a Get::execute with its match arms swapped
GetResponseInverted(value) == IF value = None THEN value ELSE Error(EMPTY)

\* Get::execute: the response for what shard.get returned
GetResponse(value) == IF value = None THEN Error(EMPTY) ELSE value

\* a Set::execute that loses the insert
SetInsertDropped(shard, key, value) == shard

\* Set::execute: shard.insert(key, self.value.clone())
SetInsert(shard, key, value) == [shard EXCEPT ![key] = value]
\* a Set::execute that never echoes the displaced value
SetResponseEmpty(prev) == Error(EMPTY)

\* Set::execute: the response for what shard.insert returned
SetResponse(prev) == IF prev = None THEN Error(EMPTY) ELSE prev

\* the outcome of a numeric command on what shard.get_mut returned:
\*   value: what the key maps to afterwards, resp: the response,
\*   wrote: the command inserted or assigned, overflow: its arithmetic overflowed
Outcome(value, response, wrote, overflow) ==
    [value |-> value, resp |-> response, wrote |-> wrote, overflow |-> overflow]

\* a Decr::execute that takes a value that is no number for an absent key
DecrOverwrites(value) ==
    CASE value = None -> Outcome(Positive(0), Positive(0), TRUE, FALSE)
      [] value.tag = "Positive" ->
            Outcome(Positive(AsU64(value.val - 1)), Positive(AsU64(value.val - 1)),
                    TRUE, ~InU64(value.val - 1))
      [] value.tag = "Negative" ->
            Outcome(Negative(AsI64(value.val - 1)), Negative(AsI64(value.val - 1)),
                    TRUE, ~InI64(value.val - 1))
      [] OTHER -> Outcome(Positive(0), Positive(0), TRUE, FALSE)

DecrExecute(value) ==
    CASE value = None -> Outcome(Positive(0), Positive(0), TRUE, FALSE)
      [] value.tag = "Positive" ->
            Outcome(Positive(AsU64(value.val - 1)), Positive(AsU64(value.val - 1)),
                    TRUE, ~InU64(value.val - 1))
      [] value.tag = "Negative" ->
            Outcome(Negative(AsI64(value.val - 1)), Negative(AsI64(value.val - 1)),
                    TRUE, ~InI64(value.val - 1))
      [] OTHER -> Outcome(value, Error(NOT_A_NUMBER), FALSE, FALSE)

\* a DecrBy::execute that takes an absent key for a stored 0 and decrements it
DecrByFromZero(value, by) ==
    CASE value = None ->
            Outcome(Positive(AsU64(0 - by)), Positive(AsU64(0 - by)), TRUE, FALSE)
      [] value.tag = "Positive" ->
            Outcome(Positive(AsU64(AsI64(value.val) - by)),
                    Positive(AsU64(AsI64(value.val) - by)),
                    TRUE, ~InI64(AsI64(value.val) - by))
      [] value.tag = "Negative" ->
            Outcome(Negative(AsI64(value.val - by)), Negative(AsI64(value.val - by)),
                    TRUE, ~InI64(value.val - by))
      [] OTHER -> Outcome(value, Error(NOT_A_NUMBER), FALSE, FALSE)

DecrByExecute(value, by) ==
    CASE value = None -> Outcome(Positive(0), Positive(0), TRUE, FALSE)
      [] value.tag = "Positive" ->
            Outcome(Positive(AsU64(AsI64(value.val) - by)),
                    Positive(AsU64(AsI64(value.val) - by)),
                    TRUE, ~InI64(AsI64(value.val) - by))
      [] value.tag = "Negative" ->
            Outcome(Negative(AsI64(value.val - by)), Negative(AsI64(value.val - by)),
                    TRUE, ~InI64(value.val - by))
      [] OTHER -> Outcome(value, Error(NOT_A_NUMBER), FALSE, FALSE)

\* command::incr is the mirror image of command::decr
IncrExecute(value) ==
    CASE value = None -> Outcome(Positive(0), Positive(0), TRUE, FALSE)
      [] value.tag = "Positive" ->
            Outcome(Positive(AsU64(value.val + 1)), Positive(AsU64(value.val + 1)),
                    TRUE, ~InU64(value.val + 1))
      [] value.tag = "Negative" ->
            Outcome(Negative(AsI64(value.val + 1)), Negative(AsI64(value.val + 1)),
                    TRUE, ~InI64(value.val + 1))
      [] OTHER -> Outcome(value, Error(NOT_A_NUMBER), FALSE, FALSE)

IncrByExecute(value, by) ==
    CASE value = None -> Outcome(Positive(0), Positive(0), TRUE, FALSE)
      [] value.tag = "Positive" ->
            Outcome(Positive(AsU64(AsI64(value.val) + by)),
                    Positive(AsU64(AsI64(value.val) + by)),
                    TRUE, ~InI64(AsI64(value.val) + by))
      [] value.tag = "Negative" ->
            Outcome(Negative(AsI64(value.val + by)), Negative(AsI64(value.val + by)),
                    TRUE, ~InI64(value.val + by))
      [] OTHER -> Outcome(value, Error(NOT_A_NUMBER), FALSE, FALSE)

Init ==
    /\ threads = NTasks
    /\ overflow_checks \in BOOLEAN
    /\ store \in {[k \in Keys |-> IF k = KeyA THEN v ELSE None] :
                    v \in StoredIntegers \cup StoredOthers \cup {None}}
    /\ guard = [t \in Tasks |-> NoGuard]
    /\ pc = [t \in Tasks |-> "idle"]
    /\ cmd = [t \in Tasks |-> NoCmd]
    /\ found = [t \in Tasks |-> None]
    /\ resp = [t \in Tasks |-> None]
    /\ write_half = [t \in Tasks |-> << >>]
    /\ wire = [t \in Tasks |-> << >>]
    /\ issued = 0
    /\ lastSet = [k \in Keys |-> None]
    /\ stage = "none"
    /\ given = None
    /\ buf = << >>
    /\ parsed = NoResult
    /\ command = NoCmd
    /\ frame = NoFrame
    /\ decoded = NoDecoded
    /\ sent = NoRead
    /\ reads = 0
    /\ written = << >>

\* an execute that stores its value under every key of the shard it locked
ExecuteWholeShard(t, c, f, v, r, overflow, g) ==
    /\ pc[t] = "idle"
    /\ issued < MaxCmds
    /\ issued' = issued + 1
    /\ cmd' = [cmd EXCEPT ![t] = c]
    /\ found' = [found EXCEPT ![t] = f]
    /\ IF overflow /\ overflow_checks
       THEN /\ pc' = [pc EXCEPT ![t] = "panicked"]
            /\ UNCHANGED <<store, guard, resp>>
       ELSE /\ pc' = [pc EXCEPT ![t] = "write_frame"]
            /\ store' = IF c.op = "PING" THEN store
                        ELSE [k \in Keys |-> IF ShardOf(k) = ShardOf(c.key) THEN v
                                             ELSE store[k]]
            /\ guard' = [guard EXCEPT ![t] = g]
            /\ resp' = [resp EXCEPT ![t] = r]
    /\ wire' = [wire EXCEPT ![t] = << >>]
    /\ UNCHANGED <<threads, overflow_checks, write_half>>
    /\ UNCHANGED codecVars
    /\ UNCHANGED connVars

\* A task takes the command c of its next frame and runs it up to the command's
\* write_frame call: it has the shard's answer f, leaves the key mapped to v and
\* hands r to write_frame, holding the handle g.  An arithmetic overflow in a
\* build that checks it panics before anything is stored; the unwinding drops
\* the handle and ends the task.
Execute(t, c, f, v, r, overflow, g) ==
    /\ pc[t] = "idle"
    /\ issued < MaxCmds
    /\ issued' = issued + 1
    /\ cmd' = [cmd EXCEPT ![t] = c]
    /\ found' = [found EXCEPT ![t] = f]
    /\ IF overflow /\ overflow_checks
       THEN /\ pc' = [pc EXCEPT ![t] = "panicked"]
            /\ UNCHANGED <<store, guard, resp>>
       ELSE /\ pc' = [pc EXCEPT ![t] = "write_frame"]
            /\ store' = IF c.op = "PING" THEN store ELSE [store EXCEPT ![c.key] = v]
            /\ guard' = [guard EXCEPT ![t] = g]
            /\ resp' = [resp EXCEPT ![t] = r]
    /\ wire' = [wire EXCEPT ![t] = << >>]
    /\ UNCHANGED <<threads, overflow_checks, write_half>>
    /\ UNCHANGED codecVars
    /\ UNCHANGED connVars

PingExecute(t) ==
    /\ Execute(t, Ping, None, None, String(PONG), FALSE, NoGuard)
    /\ UNCHANGED lastSet

GetExecute(t, k) ==
    /\ CanRead(t, k)
    /\ Execute(t, Get(k), store[k], store[k], GetResponse(store[k]), FALSE,
               [shard |-> ShardOf(k), mode |-> "read"])
    /\ UNCHANGED lastSet

SetExecute(t, k, v) ==
    /\ CanWrite(t, k)
    /\ Execute(t, Set(k, v), store[k], SetInsert(store, k, v)[k], SetResponse(store[k]),
               FALSE, [shard |-> ShardOf(k), mode |-> "write"])
    /\ lastSet' = [lastSet EXCEPT ![k] = v]

\* the part the four numeric commands share
Numeric(t, c, o) ==
    /\ CanWrite(t, c.key)
    /\ Execute(t, c, store[c.key], o.value, o.resp, o.overflow,
               [shard |-> ShardOf(c.key), mode |-> "write"])
    /\ lastSet' = IF o.wrote /\ ~(o.overflow /\ overflow_checks)
                  THEN [lastSet EXCEPT ![c.key] = None]
                  ELSE lastSet

IncrAction(t, k) == Numeric(t, Incr(k), IncrExecute(store[k]))
IncrByAction(t, k, by) == Numeric(t, IncrBy(k, by), IncrByExecute(store[k], by))
DecrAction(t, k) == Numeric(t, Decr(k), DecrExecute(store[k]))
DecrByAction(t, k, by) == Numeric(t, DecrBy(k, by), DecrByExecute(store[k], by))

\* Connection::write_frame: encode the Value and append it to the BufWriter; the
\* command's execute then returns (dropping its shard handle), except Ping's,
\* which goes on to flush.  Value::encode panics on an overflow the build checks.
WriteFrame(t) ==
    /\ pc[t] = "write_frame"
    /\ IF overflow_checks /\ encode_overflows(resp[t])
       THEN /\ pc' = [pc EXCEPT ![t] = "panicked"]
            /\ UNCHANGED write_half
       ELSE /\ pc' = [pc EXCEPT ![t] = IF cmd[t].op = "PING" THEN "ping_flush"
                                       ELSE "flush_writer"]
            /\ write_half' = [write_half EXCEPT ![t] = @ \o encode(resp[t])]
    /\ guard' = [guard EXCEPT ![t] = NoGuard]
    /\ UNCHANGED <<threads, overflow_checks, store, cmd, found, resp, wire, issued, lastSet>>
    /\ UNCHANGED codecVars
    /\ UNCHANGED connVars

\* Connection::flush_writer: the buffered bytes reach the peer
Flushed(t) ==
    /\ wire' = [wire EXCEPT ![t] = @ \o write_half[t]]
    /\ write_half' = [write_half EXCEPT ![t] = << >>]

\* a Ping::execute that returns without flushing
PingFlushSkipped(t) ==
    /\ pc[t] = "ping_flush"
    /\ pc' = [pc EXCEPT ![t] = "flush_writer"]
    /\ UNCHANGED <<threads, overflow_checks, store, guard, cmd, found, resp, write_half, wire,
                   issued, lastSet>>
    /\ UNCHANGED codecVars
    /\ UNCHANGED connVars

\* Ping::execute's own flush
PingFlush(t) ==
    /\ pc[t] = "ping_flush"
    /\ Flushed(t)
    /\ pc' = [pc EXCEPT ![t] = "flush_writer"]
    /\ UNCHANGED <<threads, overflow_checks, store, guard, cmd, found, resp, issued, lastSet>>
    /\ UNCHANGED codecVars
    /\ UNCHANGED connVars

\* a CommandEntry::execute that returns without flushing
FlushWriterSkipped(t) ==
    /\ pc[t] = "flush_writer"
    /\ pc' = [pc EXCEPT ![t] = "idle"]
    /\ cmd' = [cmd EXCEPT ![t] = NoCmd]
    /\ found' = [found EXCEPT ![t] = None]
    /\ resp' = [resp EXCEPT ![t] = None]
    /\ UNCHANGED <<threads, overflow_checks, store, guard, write_half, wire, issued, lastSet>>
    /\ UNCHANGED codecVars
    /\ UNCHANGED connVars

\* CommandEntry::execute's flush, after which the connection reads its next frame
FlushWriter(t) ==
    /\ pc[t] = "flush_writer"
    /\ Flushed(t)
    /\ pc' = [pc EXCEPT ![t] = "idle"]
    /\ cmd' = [cmd EXCEPT ![t] = NoCmd]
    /\ found' = [found EXCEPT ![t] = None]
    /\ resp' = [resp EXCEPT ![t] = None]
    /\ UNCHANGED <<threads, overflow_checks, store, guard, issued, lastSet>>
    /\ UNCHANGED codecVars
    /\ UNCHANGED connVars

Next ==
    \/ \E t \in Tasks : PingExecute(t)
    \/ \E t \in Tasks, k \in GetKeys : GetExecute(t, k)
    \/ \E t \in Tasks, kv \in SetInputs : SetExecute(t, kv[1], kv[2])
    \/ \E t \in Tasks, k \in IncrKeys : IncrAction(t, k)
    \/ \E t \in Tasks, by \in IncrDeltas : IncrByAction(t, KeyA, by)
    \/ \E t \in Tasks, k \in DecrKeys : DecrAction(t, k)
    \/ \E t \in Tasks, by \in DecrDeltas : DecrByAction(t, KeyA, by)
    \/ \E t \in Tasks : WriteFrame(t)
    \/ \E t \in Tasks : PingFlush(t)
    \/ \E t \in Tasks : FlushWriter(t)

Spec == Init /\ [][Next]_vars

(***************************************************************************)
(* The codec on its own: a Value is encoded and the bytes are parsed back, *)
(* bytes from a peer are parsed, a command is encoded and the Value parsed *)
(* back into a command, directly or over the wire as a client sends it.    *)
(***************************************************************************)
\* the integers 0..MaxSmall are all tried, the larger ones at the byte boundaries
MaxSmall == 300

\* n copies of x
Rep(x, n) == [i \in 1..n |-> x]

Boundaries ==
    UNION {{Pow2(8 * k) - 1, Pow2(8 * k)} : k \in 1..IntBytes}
    \cup {500, IMax, IMax + 1, UMax - 1, UMax}

PositiveSamples == {n \in (0..MaxSmall) \cup Boundaries : n <= UMax}
\* the magnitudes m of the negative integers -(m + 1), and a few that are not negative
NegativeSamples ==
    {0 - 1 - m : m \in {x \in (0..MaxSmall) \cup Boundaries \cup {499} : x <= IMax}}
    \cup {0, 1, 23, 24, IMax}

Lengths == {0, 1, 22, 23, 30, 31, 100}
Payloads ==
    {Rep(97, n) : n \in Lengths}
    \cup {<<1>>, <<22>>, <<23>>, <<24>>, <<255>>, <<195, 169>>, Str("hi"), Str("PONG"), EMPTY}
Texts == {p \in Payloads : from_utf8(p)}

\* the numbers of items of the arrays, across the indefinite threshold
Sizes == {0, 1, 30, 31, 32, 100}
ArraySamples ==
    {Array(Rep(Positive(500), n)) : n \in Sizes}
    \cup {Array(Rep(Positive(1), n)) : n \in Sizes}
    \cup {Array(<<Positive(5), Negative(0 - 500)>>),
          Array(<<Positive(1), Positive(2), Positive(3)>>),
          Array(<<Negative(0 - 5)>>),
          Array(<<String(Str("hi"))>>),
          Array(Rep(String(Str("hi")), 30)),
          Array(Rep(String(Str("hi")), 31)),
          Array(<<Bytes(<<255>>)>>),
          Array(<<Array(<<Positive(1)>>), Array(<< >>)>>)}

\* the wire bytes of the key Values Bytes(KeyA) and Bytes(KeyB)
WireKeyA == encode(Bytes(KeyA))
WireKeyB == encode(Bytes(KeyB))
MapSamples ==
    {Map({}),
     Map({<<WireKeyA, Positive(1)>>}),
     Map({<<WireKeyA, Positive(1)>>, <<WireKeyB, Positive(2)>>}),
     Map({<<KeyA, Positive(1)>>}),
     Map({<<encode(Positive(24 + i)), Positive(i)>> : i \in 1..30}),
     Map({<<encode(Positive(24 + i)), Positive(i)>> : i \in 1..31}),
     Map({<<encode(Positive(24 + i)), Positive(i)>> : i \in 1..32})}

ValueSamples ==
    {Positive(n) : n \in PositiveSamples}
    \cup {Negative(n) : n \in NegativeSamples}
    \cup {Bytes(p) : p \in Payloads}
    \cup {String(p) : p \in Texts}
    \cup {Error(p) : p \in Texts}
    \cup ArraySamples
    \cup MapSamples

\* bytes a peer may send: the vectors of the parser's tests, truncated and
\* unterminated items, texts that are no UTF-8, and the reserved major type
Inputs ==
    {<< >>,
     <<22>>, <<54>>, <<25, 1, 244>>, <<57, 1, 243>>, <<86>>, <<88, 255>>,
     <<124, 104, 101, 108, 108, 111>>,
     <<132, 88, 241, 86, 54, 25, 1, 244>>,
     <<159, 88, 255, 86, 54, 25, 1, 244, 255>>,
     <<25, 1>>, <<24>>, <<88>>, <<95, 1, 2>>, <<120>>, <<184>>,
     <<120, 255>>, <<121, 195, 40>>, <<184, 128>>, <<121, 195, 169>>,
     <<130, 1>>, <<159, 1>>, <<159>>, <<223, 1>>, <<193, 1>>, <<223, 1, 2, 255>>,
     <<194, 1, 2, 3, 4>>, <<223, 88, 97, 1, 88, 97, 2, 255>>, <<223, 57, 127, 255, 1, 255>>,
     <<224>>, <<255>>, <<231, 1>>, <<129, 224>>, <<159, 224, 255>>, <<193, 1, 255>>,
     <<5, 6>>}

CommandSamples ==
    {Ping, Get(KeyA), Get(<< >>), Set(KeyA, Positive(1)), Set(KeyB, String(Str("hi"))),
     Incr(KeyA), IncrBy(KeyA, 1), IncrBy(KeyA, 0 - 1), Decr(KeyA),
     DecrBy(KeyA, 1), DecrBy(KeyA, 0 - 5), DecrBy(KeyB, IMin)}

\* Values a connection may hand to CommandEntry::parse, as parse returns them
CommandNames == {"PING", "GET", "SET", "INCR", "INCRBY", "DECR", "DECRBY"}
OtherNames == {"get", "DEL", "", "PONG"}
Arguments ==
    {<< >>, <<Bytes(KeyA)>>, <<Bytes(KeyA), Bytes(KeyB)>>, <<Positive(1)>>,
     <<String(Str("hi"))>>, <<Bytes(KeyA), Positive(1)>>, <<Bytes(KeyA), Negative(1)>>,
     <<Positive(1), Positive(1)>>, <<Positive(1), Negative(1)>>,
     <<Bytes(KeyA), Positive(1), Positive(2)>>, <<Bytes(KeyA), Negative(1), Negative(2)>>}
FrameSamples ==
    {Frame(Array(<<String(Str(name))>> \o args), "Borrowed") :
        name \in CommandNames \cup OtherNames, args \in Arguments}
    \cup {Frame(v, "Borrowed") :
            v \in {Positive(1), Negative(0 - 1), Bytes(KeyA), String(Str("GET")),
                   Error(EMPTY), Map({}), Array(<< >>), Array(<<Bytes(Str("GET"))>>),
                   Array(<<Positive(1), String(Str("GET"))>>),
                   Array(<<Error(Str("GET")), Bytes(KeyA)>>),
                   Array(<<Array(<<String(Str("GET"))>>), Bytes(KeyA)>>)}}
    \cup {Frame(Array(<<String(Str("GET")), Bytes(KeyA)>>), "Owned"),
          Frame(Array(<<String(Str("DEL"))>>), "Owned")}

CodecInit ==
    /\ threads = NTasks
    /\ overflow_checks \in BOOLEAN
    /\ store = [k \in Keys |-> None]
    /\ guard = [t \in Tasks |-> NoGuard]
    /\ pc = [t \in Tasks |-> "idle"]
    /\ cmd = [t \in Tasks |-> NoCmd]
    /\ found = [t \in Tasks |-> None]
    /\ resp = [t \in Tasks |-> None]
    /\ write_half = [t \in Tasks |-> << >>]
    /\ wire = [t \in Tasks |-> << >>]
    /\ issued = 0
    /\ lastSet = [k \in Keys |-> None]
    /\ parsed = NoResult
    /\ decoded = NoDecoded
    /\ sent = NoRead
    /\ reads = 0
    /\ written = << >>
    /\ \/ /\ stage = "value"
          /\ given \in ValueSamples
          /\ buf = << >> /\ command = NoCmd /\ frame = NoFrame
       \/ /\ stage = "buf"
          /\ buf \in Inputs
          /\ given = None /\ command = NoCmd /\ frame = NoFrame
       \/ /\ stage = "command"
          /\ command \in CommandSamples
          /\ given = None /\ buf = << >> /\ frame = NoFrame
       \/ /\ stage = "frame"
          /\ frame \in FrameSamples
          /\ given = None /\ buf = << >> /\ command = NoCmd

executionVars ==
    <<threads, overflow_checks, store, guard, pc, cmd, found, resp, write_half, wire, issued,
      lastSet>>

\* Value::encode of the given Value
ValueEncode ==
    /\ stage = "value"
    /\ IF overflow_checks /\ encode_overflows(given)
       THEN stage' = "panicked" /\ buf' = buf
       ELSE stage' = "buf" /\ buf' = encode(given)
    /\ UNCHANGED <<given, parsed, command, frame, decoded>>
    /\ UNCHANGED executionVars
    /\ UNCHANGED connVars

\* parse of the bytes
Parse ==
    /\ stage = "buf"
    /\ parsed' = parse(buf)
    /\ stage' = "parsed"
    /\ UNCHANGED <<given, buf, command, frame, decoded>>
    /\ UNCHANGED executionVars
    /\ UNCHANGED connVars

\* CommandEntry::encode of the command, handed straight to CommandEntry::parse
CommandEncode ==
    /\ stage = "command"
    /\ frame' = CommandEntry_encode(command)
    /\ stage' = "frame"
    /\ UNCHANGED <<given, buf, parsed, command, decoded>>
    /\ UNCHANGED executionVars
    /\ UNCHANGED connVars

\* a client sends the command: CommandEntry::encode, then Value::encode of that
CommandSend ==
    /\ stage = "command"
    /\ given' = CommandEntry_encode(command).value
    /\ stage' = "value"
    /\ UNCHANGED <<buf, parsed, command, frame, decoded>>
    /\ UNCHANGED executionVars
    /\ UNCHANGED connVars

\* read_frame hands the parsed Value of a sent command on, whatever input is left
FrameRead ==
    /\ stage = "parsed"
    /\ command # NoCmd
    /\ parsed.kind = "Ok"
    /\ frame' = Frame(parsed.value, "Borrowed")
    /\ stage' = "frame"
    /\ UNCHANGED <<given, buf, parsed, command, decoded>>
    /\ UNCHANGED executionVars
    /\ UNCHANGED connVars

\* CommandEntry::parse of the Value
CommandParse ==
    /\ stage = "frame"
    /\ decoded' = CommandEntry_parse(frame)
    /\ stage' = "decoded"
    /\ UNCHANGED <<given, buf, parsed, command, frame>>
    /\ UNCHANGED executionVars
    /\ UNCHANGED connVars

CodecNext ==
    \/ ValueEncode
    \/ Parse
    \/ CommandEncode
    \/ CommandSend
    \/ FrameRead
    \/ CommandParse

CodecSpec == CodecInit /\ [][CodecNext]_vars

(***************************************************************************)
(* A Connection on its own: read_frame, write_frame and flush_writer are   *)
(* called in any order on one connection, whose peer sends any bytes.      *)
(***************************************************************************)
\* the calls of read_frame and of write_frame a behaviour makes
MaxReads == 2
MaxWrites == 2

\* the connection that is driven
Conn == CHOOSE t \in Tasks : TRUE

\* Err(ProtocolError::Read), Err(ProtocolError::ZeroRead), Err(ProtocolError::Parse)
Err(e) == [kind |-> e, rest |-> << >>, value |-> None]

\* read_frame's `Ok(parse(..)?.1)`: the Value without the input that is left
Returned(p) ==
    CASE p.kind = "Ok" -> Ok(<< >>, p.value)
      [] p.kind = "ParseError" -> Err("Parse")
      [] OTHER -> p

\* a read_frame that does not clear the buffer
ReadFrameKeeps(stale, read) ==
    LET filled == stale \o read.bytes
        n == Len(read.bytes)
    IN  IF read.kind = "error" THEN [buf |-> stale, result |-> Err("Read")]
        ELSE IF n = 0 THEN [buf |-> filled, result |-> Err("ZeroRead")]
        ELSE [buf |-> filled, result |-> Returned(parse(SubSeq(filled, 1, n)))]

\* Connection::read_frame on a buffer that holds stale, with what the
\* underlying read does: the buffer afterwards and what is returned
read_frame(stale, read) ==
    LET cleared == SubSeq(stale, 1, 0)
        filled == cleared \o read.bytes
        n == Len(read.bytes)
    IN  IF read.kind = "error" THEN [buf |-> cleared, result |-> Err("Read")]
        ELSE IF n = 0 THEN [buf |-> filled, result |-> Err("ZeroRead")]
        ELSE [buf |-> filled, result |-> Returned(parse(SubSeq(filled, 1, n)))]

\* the bytes of a command as a client sends it
Sent(c) == encode(CommandEntry_encode(c).value)

\* bytes a read delivers: none, whole Values, a Value followed by more bytes, a
\* truncated one, a text that is no UTF-8 and the reserved major type
Deliveries ==
    {<< >>, <<22>>, <<25, 1, 244>>, <<124, 104, 101, 108, 108, 111>>,
     <<159, 88, 255, 86, 54, 25, 1, 244, 255>>, <<5, 6>>, <<25, 1>>, <<120, 255>>,
     <<224>>}

\* commands that arrive two in one read
Pipelined == {Ping, Get(KeyA), Set(KeyA, Positive(1))}

\* Values handed to write_frame
Responses == {String(PONG), Error(EMPTY), Negative(IMin)}

ConnInit ==
    /\ threads = NTasks
    /\ overflow_checks \in BOOLEAN
    /\ store = [k \in Keys |-> IF k = KeyA THEN Positive(1) ELSE None]
    /\ guard = [t \in Tasks |-> NoGuard]
    /\ pc = [t \in Tasks |-> "idle"]
    /\ cmd = [t \in Tasks |-> NoCmd]
    /\ found = [t \in Tasks |-> None]
    /\ resp = [t \in Tasks |-> None]
    /\ write_half = [t \in Tasks |-> << >>]
    /\ wire = [t \in Tasks |-> << >>]
    /\ issued = 0
    /\ lastSet = [k \in Keys |-> None]
    /\ stage = "connection"
    /\ given = None
    /\ buf = << >>
    /\ parsed = NoResult
    /\ command = NoCmd
    /\ frame = NoFrame
    /\ decoded = NoDecoded
    /\ sent = NoRead
    /\ reads = 0
    /\ written = << >>

\* read_frame is called and the underlying read does what `read` says; c is the
\* first of the commands whose bytes it delivers, if it delivers commands
ReadFrame(read, c) ==
    /\ stage = "connection"
    /\ reads < MaxReads
    /\ LET r == read_frame(buf, read)
       IN  /\ buf' = r.buf
           /\ parsed' = r.result
           /\ stage' = IF r.result = Panicked THEN "panicked" ELSE stage
    /\ sent' = read
    /\ reads' = reads + 1
    /\ command' = c
    /\ UNCHANGED <<given, frame, decoded, written>>
    /\ UNCHANGED executionVars

\* the underlying read fails
ReadFails == ReadFrame(IoError, NoCmd)

\* the underlying read delivers bytes, or none
ReadBytes == \E b \in Deliveries : ReadFrame(Delivers(b), NoCmd)

\* the underlying read delivers two commands at once
ReadCommands == \E c \in Pipelined, d \in Pipelined : ReadFrame(Delivers(Sent(c) \o Sent(d)), c)

\* a write_frame that flushes what it has written
ConnWriteFrameFlushing(v) ==
    /\ stage = "connection"
    /\ Len(written) < MaxWrites
    /\ IF overflow_checks /\ encode_overflows(v)
       THEN stage' = "panicked" /\ UNCHANGED <<write_half, wire, written>>
       ELSE /\ wire' = [wire EXCEPT ![Conn] = @ \o write_half[Conn] \o encode(v)]
            /\ write_half' = [write_half EXCEPT ![Conn] = << >>]
            /\ written' = Append(written, v)
            /\ stage' = stage
    /\ UNCHANGED <<threads, overflow_checks, store, guard, pc, cmd, found, resp, issued, lastSet>>
    /\ UNCHANGED <<given, buf, parsed, command, frame, decoded, sent, reads>>

\* Connection::write_frame of the Value v: its encoding is appended to the
\* BufWriter; Value::encode panics on an overflow the build checks
ConnWriteFrame(v) ==
    /\ stage = "connection"
    /\ Len(written) < MaxWrites
    /\ IF overflow_checks /\ encode_overflows(v)
       THEN stage' = "panicked" /\ UNCHANGED <<write_half, written>>
       ELSE /\ write_half' = [write_half EXCEPT ![Conn] = @ \o encode(v)]
            /\ written' = Append(written, v)
            /\ stage' = stage
    /\ UNCHANGED <<threads, overflow_checks, store, guard, pc, cmd, found, resp, wire, issued,
                   lastSet>>
    /\ UNCHANGED <<given, buf, parsed, command, frame, decoded, sent, reads>>

\* Connection::flush_writer
ConnFlushWriter ==
    /\ stage = "connection"
    /\ Flushed(Conn)
    /\ UNCHANGED <<threads, overflow_checks, store, guard, pc, cmd, found, resp, issued, lastSet>>
    /\ UNCHANGED codecVars
    /\ UNCHANGED connVars

ConnNext ==
    \/ ReadFails
    \/ ReadBytes
    \/ ReadCommands
    \/ \E v \in Responses : ConnWriteFrame(v)
    \/ ConnFlushWriter

ConnSpec == ConnInit /\ [][ConnNext]_vars

(***************************************************************************)
(* The connection tasks on an executor of a few threads.  A task is polled *)
(* on a free thread and runs until it suspends in an await; db.read and    *)
(* db.write are plain calls, no awaits: a task that finds the handle taken *)
(* stays on its thread until the call returns.                             *)
(***************************************************************************)
MaxThreads == 2

\* CommandEntry::execute's dispatch: what the command c answers and leaves
\* under its key when it finds v there
Serial(c, v) ==
    CASE c.op = "GET" -> Outcome(v, GetResponse(v), FALSE, FALSE)
      [] c.op = "SET" -> Outcome(c.value, SetResponse(v), TRUE, FALSE)
      [] c.op = "INCR" -> IncrExecute(v)
      [] c.op = "INCRBY" -> IncrByExecute(v, c.by)
      [] c.op = "DECR" -> DecrExecute(v)
      [] c.op = "DECRBY" -> DecrByExecute(v, c.by)

\* the tasks inside a db.read or db.write call that has not returned
Waiting == {t \in Tasks : pc[t] \in {"db_read", "db_write"}}
\* a thread is free to poll a task
FreeThread == Cardinality(Waiting) < threads

\* the handle the command asks for, and whether the shard's lock grants it
HandleOf(c) ==
    [shard |-> ShardOf(c.key), mode |-> IF c.op = "GET" THEN "read" ELSE "write"]
Available(t, c) == IF c.op = "GET" THEN CanRead(t, c.key) ELSE CanWrite(t, c.key)

\* the commands the clients send: on KeyA and on KeyC, which share a shard
Contending == {Set(KeyA, Positive(1)), Get(KeyA), Decr(KeyC)}

SchedInit ==
    /\ threads \in 1..MaxThreads
    /\ overflow_checks \in BOOLEAN
    /\ store \in {[k \in Keys |-> IF k = KeyA THEN v ELSE None] :
                    v \in {None, Positive(0), String(Str("hi"))}}
    /\ guard = [t \in Tasks |-> NoGuard]
    /\ pc = [t \in Tasks |-> "idle"]
    /\ cmd = [t \in Tasks |-> NoCmd]
    /\ found = [t \in Tasks |-> None]
    /\ resp = [t \in Tasks |-> None]
    /\ write_half = [t \in Tasks |-> << >>]
    /\ wire = [t \in Tasks |-> << >>]
    /\ issued = 0
    /\ lastSet = [k \in Keys |-> None]
    /\ stage = "none"
    /\ given = None
    /\ buf = << >>
    /\ parsed = NoResult
    /\ command = NoCmd
    /\ frame = NoFrame
    /\ decoded = NoDecoded
    /\ sent = NoRead
    /\ reads = 0
    /\ written = << >>

\* a task is polled with a frame read: the handle is free, and the command runs
\* up to its write_frame, where the task suspends holding the handle
SchedSet(t) == FreeThread /\ SetExecute(t, KeyA, Positive(1))
SchedGet(t) == FreeThread /\ GetExecute(t, KeyA)
SchedDecr(t) == FreeThread /\ DecrAction(t, KeyC)

\* a task is polled with a frame read and calls db.read or db.write while the
\* lock does not grant the handle: the call does not return
DbBlocks(t, c) ==
    /\ pc[t] = "idle"
    /\ issued < MaxCmds
    /\ FreeThread
    /\ ~Available(t, c)
    /\ pc' = [pc EXCEPT ![t] = IF c.op = "GET" THEN "db_read" ELSE "db_write"]
    /\ cmd' = [cmd EXCEPT ![t] = c]
    /\ issued' = issued + 1
    /\ wire' = [wire EXCEPT ![t] = << >>]
    /\ UNCHANGED <<threads, overflow_checks, store, guard, found, resp, write_half,
                   lastSet>>
    /\ UNCHANGED codecVars
    /\ UNCHANGED connVars

\* the lock grants the handle, db.read or db.write returns on the thread the
\* task has kept, and the command runs up to its write_frame
DbReturns(t) ==
    /\ pc[t] \in {"db_read", "db_write"}
    /\ Available(t, cmd[t])
    /\ found' = [found EXCEPT ![t] = store[cmd[t].key]]
    /\ LET o == Serial(cmd[t], store[cmd[t].key])
       IN  IF o.overflow /\ overflow_checks
           THEN /\ pc' = [pc EXCEPT ![t] = "panicked"]
                /\ UNCHANGED <<store, guard, resp, lastSet>>
           ELSE /\ pc' = [pc EXCEPT ![t] = "write_frame"]
                /\ store' = [store EXCEPT ![cmd[t].key] = o.value]
                /\ guard' = [guard EXCEPT ![t] = HandleOf(cmd[t])]
                /\ resp' = [resp EXCEPT ![t] = o.resp]
                /\ lastSet' = CASE cmd[t].op = "SET" ->
                                      [lastSet EXCEPT ![cmd[t].key] = cmd[t].value]
                                 [] cmd[t].op # "SET" /\ o.wrote ->
                                      [lastSet EXCEPT ![cmd[t].key] = None]
                                 [] OTHER -> lastSet
    /\ UNCHANGED <<threads, overflow_checks, cmd, write_half, wire, issued>>
    /\ UNCHANGED codecVars
    /\ UNCHANGED connVars

\* the pending write completes and the task is polled again
SchedWriteFrame(t) == FreeThread /\ WriteFrame(t)
SchedFlushWriter(t) == FreeThread /\ FlushWriter(t)

SchedNext ==
    \/ \E t \in Tasks : SchedSet(t)
    \/ \E t \in Tasks : SchedGet(t)
    \/ \E t \in Tasks : SchedDecr(t)
    \/ \E t \in Tasks, c \in Contending : DbBlocks(t, c)
    \/ \E t \in Tasks : DbReturns(t)
    \/ \E t \in Tasks : SchedWriteFrame(t)
    \/ \E t \in Tasks : SchedFlushWriter(t)

SchedSpec == SchedInit /\ [][SchedNext]_vars

\* every outbound write completes and the tasks are scheduled fairly: a task
\* that can go on is polled
SchedFair ==
    \A t \in Tasks :
        /\ WF_vars(DbReturns(t))
        /\ WF_vars(SchedWriteFrame(t))
        /\ WF_vars(SchedFlushWriter(t))

SchedLive == SchedSpec /\ SchedFair

(***************************************************************************)
(* The claims.  A command "writes" the Value it hands to write_frame: a     *)
(* task suspended in that call is at "write_frame", with the Value in resp. *)
(***************************************************************************)
NumericOps == {"INCR", "INCRBY", "DECR", "DECRBY"}
IsNumber(v) == v.tag \in {"Positive", "Negative"}
IsValue(v) == v # None
Writing(t, op) == pc[t] = "write_frame" /\ cmd[t].op = op
\* the step is one of task t executing a command op
StepOf(t, op) == pc'[t] # pc[t] /\ (cmd[t].op = op \/ cmd'[t].op = op)

\* C1: a GET that follows a SET key v, with no other write to key in between,
\* hands exactly v to write_frame.
C1_GetAfterSet ==
    \A t \in Tasks :
        (Writing(t, "GET") /\ lastSet[cmd[t].key] # None)
            => resp[t] = lastSet[cmd[t].key]

\* C1 witness: a GET answers with the value an earlier SET put under its key.
C1_Witness ==
    \E t \in Tasks :
        /\ Writing(t, "GET")
        /\ lastSet[cmd[t].key] \in {Positive(1), String(Str("hi"))}
        /\ resp[t] = lastSet[cmd[t].key]
        /\ store[cmd[t].key] = resp[t]

\* C2: SET answers with the value it displaced, or Error("Can not find the key")
\* when the key was absent, and the key maps to the new value afterwards.
C2_SetEchoesPrevious ==
    \A t \in Tasks :
        Writing(t, "SET") =>
            /\ resp[t] = IF found[t] = None THEN Error(EMPTY) ELSE found[t]
            /\ store[cmd[t].key] = cmd[t].value

\* C2 witness: one SET displaces a different value and answers with it while
\* another SET, on a fresh key, answers with the error.
C2_Witness ==
    \E t, u \in Tasks :
        /\ Writing(t, "SET") /\ IsValue(found[t]) /\ found[t] # cmd[t].value
        /\ resp[t] = found[t] /\ store[cmd[t].key] = cmd[t].value
        /\ Writing(u, "SET") /\ found[u] = None /\ resp[u] = Error(EMPTY)
        /\ store[cmd[u].key] = cmd[u].value

\* C3: GET answers Error("Can not find the key") for an absent key and the
\* stored Value for a present one, and no step of a GET changes the store.
C3_GetAnswer ==
    \A t \in Tasks :
        Writing(t, "GET") =>
            /\ found[t] = store[cmd[t].key]
            /\ resp[t] = IF store[cmd[t].key] = None THEN Error(EMPTY)
                         ELSE store[cmd[t].key]
C3_GetReadsOnly ==
    /\ []C3_GetAnswer
    /\ [][\A t \in Tasks : StepOf(t, "GET") => store' = store]_vars

\* C3 witness: one GET answers with the stored value, another with the error.
C3_Witness ==
    \E t, u \in Tasks :
        /\ Writing(t, "GET") /\ IsValue(store[cmd[t].key])
        /\ resp[t] = store[cmd[t].key]
        /\ Writing(u, "GET") /\ store[cmd[u].key] = None /\ resp[u] = Error(EMPTY)

\* C4: INCR, DECR, INCRBY and DECRBY on an absent key insert Positive(0) and
\* answer Positive(0), whatever the delta.
C4_AbsentBecomesZero ==
    \A t \in Tasks :
        (pc[t] = "write_frame" /\ cmd[t].op \in NumericOps /\ found[t] = None)
            => /\ resp[t] = Positive(0)
               /\ store[cmd[t].key] = Positive(0)

\* C4 witness: a DECRBY with a delta other than 1 has inserted and answered 0.
C4_Witness ==
    \E t \in Tasks :
        /\ Writing(t, "DECRBY") /\ cmd[t].by # 1 /\ found[t] = None
        /\ resp[t] = Positive(0) /\ store[cmd[t].key] = Positive(0)

\* C5: a numeric command on a stored Value that is no integer answers
\* Error("Not a number") and leaves the whole store as it was.
C5_NotANumber ==
    [][\A t \in Tasks :
        (/\ pc[t] = "idle" /\ pc'[t] # "idle"
         /\ cmd'[t].op \in NumericOps
         /\ IsValue(store[cmd'[t].key]) /\ ~IsNumber(store[cmd'[t].key]))
            => /\ pc'[t] = "write_frame"
               /\ resp'[t] = Error(NOT_A_NUMBER)
               /\ store' = store]_vars

\* C5 witness: a DECR found a stored Array, answered the error and left it.
C5_Witness ==
    \E t \in Tasks :
        /\ Writing(t, "DECR") /\ found[t].tag = "Array"
        /\ resp[t] = Error(NOT_A_NUMBER) /\ store[cmd[t].key] = found[t]

\* the command of task t has run up to its write_frame call, or has panicked
Executed(t) == pc[t] \in {"write_frame", "ping_flush", "flush_writer", "panicked"}

\* C6: DECR on Positive(p) stores and answers a value that represents p - 1, in
\* the Negative variant when that is below zero; on Negative(n) it stores and
\* answers Negative(n - 1); it completes and answers for every stored integer.
C6_DecrIsArithmetic ==
    \A t \in Tasks :
        (cmd[t].op = "DECR" /\ Executed(t) /\ IsNumber(found[t])) =>
            /\ pc[t] # "panicked"
            /\ resp[t].val = found[t].val - 1
            /\ resp[t].tag = IF found[t].val - 1 < 0 THEN "Negative" ELSE found[t].tag
            /\ pc[t] = "write_frame" => store[cmd[t].key] = resp[t]

\* C7: DECRBY is DECR with the delta by: with by = 1 it stores and answers what
\* DECR does, on every stored integer, and on Positive(p) or Negative(n) the
\* value stored and answered represents p - by or n - by, in the variant the
\* result requires.
C7_DecrByLikeDecr ==
    \A t \in Tasks :
        (cmd[t].op = "DECRBY" /\ Executed(t)) =>
            /\ cmd[t].by = 1 =>
                  /\ (pc[t] = "panicked" /\ resp[t] = None)
                        <=> (overflow_checks /\ DecrExecute(found[t]).overflow)
                  /\ IsValue(resp[t]) => resp[t] = DecrExecute(found[t]).resp
                  /\ pc[t] = "write_frame" =>
                        store[cmd[t].key] = DecrExecute(found[t]).value
            /\ IsNumber(found[t]) =>
                  /\ pc[t] # "panicked"
                  /\ resp[t].val = found[t].val - cmd[t].by
                  /\ found[t].val - cmd[t].by < 0 => resp[t].tag = "Negative"
                  /\ pc[t] = "write_frame" => store[cmd[t].key] = resp[t]

\* the tasks that have each executed the one command c, and nothing else has run
OneEach(c) == {t \in Tasks : cmd[t] = c /\ Executed(t)}
\* ... then the key moved by d per task from the value v0 the first of them found,
\* and the answers are the values in between
NoLostUpdate(c, d) ==
    LET S == OneEach(c)
        n == Cardinality(S)
    IN  (n >= 2 /\ issued = n /\ \A t \in S : IsNumber(found[t])) =>
            \E t0 \in S :
                LET v0 == found[t0].val
                IN  /\ \A t \in S : pc[t] # "panicked" /\ IsNumber(resp[t])
                    /\ IsNumber(store[c.key])
                    /\ store[c.key].val = v0 + d * n
                    /\ {resp[t].val : t \in S} =
                          IF d < 0 THEN (v0 - n)..(v0 - 1) ELSE (v0 + 1)..(v0 + n)

\* C8: N >= 2 tasks that each execute one INCR (or each one DECR) on a key
\* holding an integer move it by exactly N, and their answers are N distinct
\* consecutive values.
C8_NoLostUpdates ==
    \A k \in Keys : NoLostUpdate(Decr(k), 0 - 1) /\ NoLostUpdate(Incr(k), 1)

\* C9: no task holds a shard handle while it is suspended in the write of its
\* response.
C9_NoGuardAcrossWrite ==
    \A t \in Tasks : pc[t] = "write_frame" => guard[t] = NoGuard

\* C10: PING hands String("PONG") to write_frame and nothing else, has flushed
\* it to the peer when Ping::execute returns, and no step of it changes the store.
C10_PingAnswer ==
    \A t \in Tasks :
        cmd[t].op = "PING" =>
            /\ pc[t] # "panicked"
            /\ pc[t] = "write_frame" =>
                  resp[t] = String(PONG) /\ write_half[t] = << >> /\ wire[t] = << >>
            /\ pc[t] = "ping_flush" =>
                  write_half[t] = <<100, 80, 79, 78, 71>> /\ wire[t] = << >>
            /\ pc[t] = "flush_writer" =>
                  write_half[t] = << >> /\ wire[t] = <<100, 80, 79, 78, 71>>
C10_Ping ==
    /\ []C10_PingAnswer
    /\ [][\A t \in Tasks : StepOf(t, "PING") => store' = store]_vars

\* C10 witness: Ping::execute has returned over a store that holds a value, the
\* one response flushed.
C10_Witness ==
    \E t \in Tasks :
        /\ cmd[t].op = "PING" /\ pc[t] = "flush_writer"
        /\ wire[t] = <<100, 80, 79, 78, 71>> /\ write_half[t] = << >>
        /\ \E k \in Keys : IsValue(store[k])

\* C23: when CommandEntry::execute returns, the response of its command has
\* been written and flushed, and nothing else; a connection that reads its next
\* frame has no response left in its writer.
C23_NothingPending == \A t \in Tasks : pc[t] = "idle" => write_half[t] = << >>
OneResponse(t) ==
    /\ IsValue(resp[t])
    /\ pc[t] = "write_frame" => wire[t] \o write_half[t] = << >>
    /\ pc[t] \in {"ping_flush", "flush_writer"} =>
          wire[t] \o write_half[t] = encode(resp[t])

\* C24: a command whose outcome is "Can not find the key" or "Not a number"
\* writes that one Error Value and its execution returns, so that the connection
\* reads its next frame; every command that is executed writes exactly one
\* response Value.
C24_ErrorsAreResponses ==
    \A t \in Tasks :
        /\ (Executed(t) /\ cmd[t].op \in {"GET", "SET"} \cup NumericOps) =>
              /\ pc[t] # "panicked"
              /\ OneResponse(t)
        /\ (Executed(t) /\ cmd[t].op = "GET" /\ found[t] = None) =>
              resp[t] = Error(EMPTY)
        /\ (Executed(t) /\ cmd[t].op \in NumericOps /\ IsValue(found[t])
                /\ ~IsNumber(found[t])) =>
              resp[t] = Error(NOT_A_NUMBER)

\* C28: a step of a task executing a command on the key k leaves every other
\* key as it was, absent or with its value, and the only handle the task gets
\* is one of the shard of k; no other task's handle changes.
C28_OneKeyOneShard ==
    [][\A t \in Tasks :
          (pc'[t] # pc[t]) =>
              (/\ \A k \in Keys \ {cmd'[t].key} : store'[k] = store[k]
               /\ (guard'[t] # NoGuard) => (guard'[t].shard = ShardOf(cmd'[t].key))
               /\ \A u \in Tasks \ {t} : guard'[u] = guard[u])]_vars

\* a DECR has created KeyC next to KeyA, which shares its shard and is as it was
C28_Witness ==
    \E t \in Tasks :
        /\ pc[t] = "write_frame" /\ cmd[t] = Decr(KeyC)
        /\ store[KeyC] = Positive(0) /\ store[KeyA] = Positive(UMax)
        /\ store[KeyB] = None
        /\ guard[t] = [shard |-> ShardOf(KeyC), mode |-> "write"]

\* task t has taken the handle for its command and not yet released it
Holding(t) == pc[t] = "write_frame" /\ cmd[t].op # "PING"

\* while a task holds the handle, its key maps to what its command left there
\* from the value it found, and no other task holds a handle of the shard
\* unless both only read
C29_Exclusive ==
    \A t \in Tasks :
        Holding(t) =>
            /\ store[cmd[t].key] = Serial(cmd[t], found[t]).value
            /\ resp[t] = Serial(cmd[t], found[t]).resp
            /\ \A u \in Tasks \ {t} :
                    (Holding(u) /\ ShardOf(cmd[u].key) = ShardOf(cmd[t].key)) =>
                        (cmd[t].op = "GET" /\ cmd[u].op = "GET")

\* C29: the commands on a key take effect one after another in the order in
\* which they get the shard's handle: each finds the value the store holds when
\* it gets the handle, answers and stores what the command yields for that
\* value, and the key changes at no other step.
C29_LockOrder ==
    /\ []C29_Exclusive
    /\ [][\A t \in Tasks :
            (pc[t] = "idle" /\ pc'[t] = "write_frame" /\ cmd'[t].op # "PING") =>
                (/\ found'[t] = store[cmd'[t].key]
                 /\ resp'[t] = Serial(cmd'[t], store[cmd'[t].key]).resp
                 /\ store'[cmd'[t].key] = Serial(cmd'[t], store[cmd'[t].key]).value)]_vars
    /\ [][\A k \in Keys :
            (store'[k] # store[k]) =>
                (\E t \in Tasks :
                    pc[t] = "idle" /\ pc'[t] = "write_frame" /\ cmd'[t].key = k)]_vars

\* a DECR that got the handle after a SET of another connection had released
\* it answers from the value the SET stored
C29_Witness ==
    \E t, u \in Tasks :
        /\ t # u
        /\ pc[u] = "flush_writer" /\ cmd[u] = Set(KeyA, Positive(1))
        /\ Holding(t) /\ cmd[t] = Decr(KeyA)
        /\ found[t] = Positive(1) /\ resp[t] = Positive(0)
        /\ store[KeyA] = Positive(0)

(***************************************************************************)
(* The claims about the codec, over CodecSpec.                             *)
(***************************************************************************)
\* the Value is an Array whose first element is a String naming a command
KnownName(f) ==
    /\ f.value.tag = "Array"
    /\ f.value.val # << >>
    /\ f.value.val[1].tag = "String"
    /\ \E name \in CommandNames : f.value.val[1].val = Str(name)

\* the elements after the name have the arity and the kinds the command takes
RightShape(f) ==
    LET name == f.value.val[1].val
        args == Tail(f.value.val)
    IN  CASE name = Str("PING") -> args = << >>
          [] name \in {Str("GET"), Str("INCR"), Str("DECR")} ->
                Len(args) = 1 /\ args[1].tag = "Bytes"
          [] name = Str("SET") -> Len(args) = 2 /\ args[1].tag = "Bytes"
          [] name \in {Str("INCRBY"), Str("DECRBY")} ->
                Len(args) = 2 /\ args[1].tag = "Bytes" /\ args[2].tag = "Negative"

\* C11: CommandEntry::parse of what CommandEntry::encode returned for a command
\* succeeds and gives that command back.
C11_CommandRoundTrip ==
    (stage = "decoded" /\ command # NoCmd /\ frame = CommandEntry_encode(command))
        => decoded = Decoded(command)

\* C12: CommandEntry::parse returns the Command error for every Value that is not
\* an Array starting with a String that is exactly a command name.
C12_UnknownIsCommandError ==
    (stage = "decoded" /\ ~KnownName(frame)) => decoded = ProtocolErrorCommand

\* C13: CommandEntry::parse returns the Command error for every known command
\* name whose remaining elements have not exactly the command's arity and kinds.
C13_WrongShapeIsCommandError ==
    (stage = "decoded" /\ KnownName(frame) /\ ~RightShape(frame))
        => decoded = ProtocolErrorCommand

\* a Value of the given variants was encoded and the bytes were parsed
RoundTripOf(tags) == stage = "parsed" /\ given # None /\ given.tag \in tags

\* C14: parsing the encoding of Positive(n) returns Positive(n) and leaves no
\* bytes, for every n an unsigned integer holds.
C14_PositiveRoundTrip == RoundTripOf({"Positive"}) => parsed = Ok(<< >>, given)

\* the largest unsigned integer, encoded in as many bytes as it has, came back
C14_Witness ==
    /\ RoundTripOf({"Positive"})
    /\ given.val = UMax
    /\ Len(buf) = 1 + IntBytes
    /\ parsed = Ok(<< >>, given)

\* C15: parsing the encoding of Negative(n) returns Negative(n) and leaves no
\* bytes, for every n <= -1 a signed integer holds.
C15_NegativeRoundTrip ==
    (RoundTripOf({"Negative"}) /\ given.val <= 0 - 1) => parsed = Ok(<< >>, given)

\* C16: parsing the encoding of a Bytes, String or Error returns the same variant
\* with the same payload and leaves no bytes, for payloads of 0, 1, 22, 23, 30,
\* 31 and 100 bytes.
C16_PayloadRoundTrip ==
    (RoundTripOf({"Bytes", "String", "Error"}) /\ Len(given.val) \in Lengths)
        => parsed = Ok(<< >>, given)

\* C17: parsing the encoding of an Array of 0, 30, 31 or 32 elements returns the
\* Array with the same elements in the same order and leaves no bytes.
C17_ArrayRoundTrip ==
    (RoundTripOf({"Array"}) /\ Len(given.val) \in Sizes \ {1})
        => parsed = Ok(<< >>, given)

\* C18: the encoding of a Map starts with a header of the map major type, and
\* parsing it returns a Map with as many entries, each value under the same key.
C18_MapRoundTrip ==
    /\ (stage = "buf" /\ given # None /\ given.tag = "Map")
            => buf[1] \div 32 = MAP_MAJOR
    /\ RoundTripOf({"Map"}) => parsed = Ok(<< >>, given)

\* C19: Positive(5) is encoded as 0x05, Positive(500) as 0x19 0x01 0xF4,
\* Negative(-5) as 0x25 and Negative(-500) as 0x39 0x01 0xF3.
C19_LiteralEncodings ==
    (stage = "buf" /\ given # None) =>
        /\ given = Positive(5) => buf = <<5>>
        /\ given = Positive(500) => buf = <<25, 1, 244>>
        /\ given = Negative(0 - 5) => buf = <<37>>
        /\ given = Negative(0 - 500) => buf = <<57, 1, 243>>

\* Negative(-500) has been encoded
C19_Witness == stage = "buf" /\ given = Negative(0 - 500) /\ buf = <<57, 1, 243>>

\* the header byte has the reserved major type 7
Reserved(b) == b # << >> /\ b[1] \div 32 = 7

\* nothing to read, an integer with fewer bytes than its header declares, or an
\* indefinite array of integers with no terminator
Truncated(b) ==
    \/ b = << >>
    \/ b[1] \in 24..31 /\ Len(b) - 1 < b[1] - 23
    \/ b[1] = 159 /\ \A i \in 2..Len(b) : b[i] < 24

\* a String or an Error whose payload, the rest of the input, is no UTF-8
IllFormedText(b) ==
    /\ b # << >>
    /\ b[1] \div 32 \in {STRING_MAJOR, ERROR_MAJOR}
    /\ Len(b) - 1 = (b[1] % 32) - 23
    /\ ~from_utf8(Tail(b))

\* C20: parse returns a ParseError, and neither aborts nor returns a Value, for
\* an input with the reserved major type 7, a truncated input, and a String or
\* Error payload that is no UTF-8.
C20_MalformedIsParseError ==
    (stage = "parsed" /\ given = None
        /\ (Reserved(buf) \/ Truncated(buf) \/ IllFormedText(buf)))
        => parsed = ParseError

(***************************************************************************)
(* The claims about a Connection on its own, over ConnSpec.                *)
(***************************************************************************)
\* read_frame has returned, or has unwound
HasRead == reads >= 1

\* C21: read_frame fails with Read when the underlying read fails, with
\* ZeroRead when it delivers no byte and with Parse when the bytes delivered do
\* not parse, and otherwise returns the Value parsed from the bytes of this read
\* alone; it performs one read, writes nothing to the peer and leaves the store.
C21_Returned ==
    HasRead =>
        /\ sent.kind = "error" => parsed = Err("Read")
        /\ sent = Delivers(<< >>) => parsed = Err("ZeroRead")
        /\ (sent.kind = "bytes" /\ sent.bytes # << >>) =>
              parsed = IF parse(sent.bytes).kind = "Ok"
                       THEN Ok(<< >>, parse(sent.bytes).value)
                       ELSE Err("Parse")
        /\ buf = sent.bytes
C21_ReadFrameOutcome ==
    /\ []C21_Returned
    /\ [][reads' # reads =>
            /\ reads' = reads + 1
            /\ wire' = wire /\ write_half' = write_half /\ store' = store]_vars

\* C22: write_frame appends the encoded Value to the buffered writer and sends
\* nothing; a flush sends everything written so far, in the order it was written.
C22_Buffered == wire[Conn] \o write_half[Conn] = encode_all(written)
C22_WriteThenFlush ==
    /\ []C22_Buffered
    /\ [][/\ (written' # written) =>
                (/\ wire' = wire
                 /\ write_half'[Conn] =
                       write_half[Conn] \o encode(written'[Len(written')]))
          /\ (wire' # wire) =>
                (/\ wire'[Conn] = encode_all(written)
                 /\ write_half'[Conn] = << >>)]_vars

\* C22 witness: two different Values were written and one flush has sent both,
\* the first one first.
C22_Witness ==
    /\ Len(written) = 2 /\ written[1] # written[2]
    /\ write_half[Conn] = << >>
    /\ wire[Conn] = encode(written[1]) \o encode(written[2])

\* C27: when one read delivers the bytes of two commands, read_frame returns
\* the Value of the first command alone and keeps nothing for the next call,
\* whose buffer holds only what its own read delivers.
C27_OneReadOneFrame ==
    (HasRead /\ command # NoCmd) =>
        /\ parsed = Ok(<< >>, CommandEntry_encode(command).value)
        /\ buf = sent.bytes

(***************************************************************************)
(* claims about the wire layout                                            *)
(***************************************************************************)
\* the least number of bytes that hold the magnitude m
MinimalBytes(m) == CHOOSE k \in 1..IntBytes : m < Pow2(8 * k) /\ (k = 1 \/ m >= Pow2(8 * (k - 1)))

\* the k bytes of m, most significant first
BigEndian(m, k) == [i \in 1..k |-> (m \div Pow2(8 * (k - i))) % 256]

\* the layout of an integer of the major type with the magnitude m
IntegerLayout(major, m) ==
    IF m < 24 THEN <<major * 32 + m>>
    ELSE <<major * 32 + MinimalBytes(m) + 23>> \o BigEndian(m, MinimalBytes(m))

\* C25: an integer of a magnitude below 24 (for Negative(n) the magnitude is
\* -(n + 1)) is encoded as one header byte holding the magnitude; any other as
\* a header byte holding the minimal byte length + 23 and then these bytes of
\* the magnitude, big-endian; the major type is 0 for Positive, 1 for Negative.
C25_IntegerLayout ==
    (stage = "buf" /\ given # None) =>
        /\ given.tag = "Positive" => buf = IntegerLayout(POSITIVE_MAJOR, given.val)
        /\ (given.tag = "Negative" /\ given.val <= 0 - 1) =>
                buf = IntegerLayout(NEGATIVE_MAJOR, 0 - (given.val + 1))

\* the decoder reads the header h alone as the inline byte b
ReadsInline(h, b) == parse(<<h>>).kind = "Ok" /\ parse(<<h>>).value.val = <<b>>

\* C26: for a Bytes, String or Error payload of one byte b the encoder folds b
\* into the header exactly when the decoder reads that header as the inline
\* byte b, and the decoder takes from every header the payload the encoder
\* put there, whole and with nothing left over.
C26_FoldingConsistent ==
    RoundTripOf({"Bytes", "String", "Error"}) =>
        /\ Len(given.val) = 1 =>
                (Len(buf) = 1 <=> ReadsInline(buf[1], given.val[1]))
        /\ parsed.kind = "Ok" /\ parsed.rest = << >> /\ parsed.value.val = given.val

(***************************************************************************)
(* The claim about the executor, over SchedLive.                           *)
(***************************************************************************)
\* the command of task t has started and has not released its handle
Started(t) == pc[t] \in {"db_read", "db_write", "write_frame"}

\* C30: every started command eventually has handed its response to the writer
\* and released its handle (or has unwound), whatever the number of threads of
\* the executor, given that the writes complete and the tasks are polled.
C30_NoDeadlock == \A t \in Tasks : Started(t) ~> ~Started(t)

=============================================================================
